---- MODULE Spec2Model ----
(***************************************************************************)
(* The smtp provider: configureClient (provider.go) builds the client      *)
(* handle, resourceMessageCreate (resource_message.go) composes one        *)
(* message, hands it to smtp.SendMail and sets the resource id.            *)
(*                                                                         *)
(* Byte strings are sequences of atoms.  An atom is "\r", "\n", "." or a   *)
(* piece of text that holds no CR or LF and does not start with a dot;     *)
(* the dot writer treats such a piece exactly as one ordinary byte.        *)
(***************************************************************************)
EXTENDS Integers, Sequences, FiniteSets, TLC

VARIABLES
    config,      \* the provider's resolved configuration (r in configureClient)
    client,      \* the handle configureClient returned (meta), or NoClient
    configDiag,  \* the diagnostic configureClient returned
    req,         \* the message resource's fields (d)
    pc,          \* the position in the provider's / resource's life
    from,        \* resourceMessageCreate's local `from`
    hdrLeft,     \* keys of d.Get("headers") the range loop has not visited yet
    sumWriter,   \* the bytes sha256 has absorbed
    dotState,    \* the dot writer's state
    bw,          \* bytes held by the bufio.Writer, not flushed yet
    buffer,      \* the bytes.Buffer
    recipients,  \* resourceMessageCreate's local `recipients`
    sent,        \* the arguments of the smtp.SendMail call, or NoCall
    sendCalls,   \* smtp.SendMail calls made by the current create
    diag,        \* the diagnostic the current create returned
    id,          \* the resource id (d.Id())
    now,         \* the clock read by time.Now()
    issued,      \* the fingerprints of the ids set so far, oldest first
    creates      \* creates started so far

vars == <<config, client, configDiag, req, pc, from, hdrLeft, sumWriter, dotState,
          bw, buffer, recipients, sent, sendCalls, diag, id, now, issued, creates>>

----------------------------------------------------------------------------
(* Bounds and input universes *)

MaxCreates == 2

DefaultPort == 587

Addrs == {"a@x.com", "b@x.com"}
HeaderKeys == {"X-A", "X-B"}
HeaderValue == [k \in HeaderKeys |-> IF k = "X-A" THEN "1" ELSE "2"]
Bodies == { <<"Boom">>,
            <<".", "hidden", "\n", "two", "\r", "\n", ".", "\n">> }
FromOverrides == {"", "\"Hello\" <world@example.com>"}
DefaultFroms == {"", "noreply@example.com"}
CramBlocks == { <<>>, <<[secret |-> "s3cret"]>> }
PlainBlocks == { <<>>, <<[password |-> "test", identity |-> ""]>> }

NoClient == [none |-> "client"]
NoAuth == [scheme |-> "nil"]
NoCall == [none |-> "call"]
NoId == ""
NoDiag == ""

Range(s) == { s[i] : i \in DOMAIN s }

----------------------------------------------------------------------------
(* provider.go *)

\* schema.ResourceData.GetOk on a TypeList block: ok iff the list is not the zero value
GetOk(v) == v # <<>>

CRAMMD5Auth(username, secret) ==
    [scheme |-> "CRAM-MD5", username |-> username, secret |-> secret]

PlainAuth(identity, username, password, host) ==
    [scheme |-> "PLAIN", identity |-> identity, username |-> username,
     password |-> password, host |-> host]

\* configureClient with the two schemes' constructors exchanged and no final else
configureClientSwapped(r) ==
    LET c == [host |-> r.host, port |-> r.port, username |-> r.username,
              from |-> r.from, auth |-> NoAuth]
    IN  IF GetOk(r.cram_md5_auth)
        THEN [client |-> [c EXCEPT !.auth =
                            PlainAuth("", c.username, r.cram_md5_auth[1].secret, c.host)],
              diag |-> NoDiag]
        ELSE IF GetOk(r.plain_auth)
        THEN [client |-> [c EXCEPT !.auth =
                            CRAMMD5Auth(c.username, r.plain_auth[1].password)],
              diag |-> NoDiag]
        ELSE [client |-> c, diag |-> NoDiag]

configureClient(r) ==
    LET c == [host |-> r.host, port |-> r.port, username |-> r.username,
              from |-> r.from, auth |-> NoAuth]
    IN  IF GetOk(r.cram_md5_auth)
        THEN [client |-> IF Len(r.cram_md5_auth) > 0
                         THEN [c EXCEPT !.auth =
                                 CRAMMD5Auth(c.username, r.cram_md5_auth[1].secret)]
                         ELSE c,
              diag |-> NoDiag]
        ELSE IF GetOk(r.plain_auth)
        THEN [client |-> IF Len(r.plain_auth) > 0
                         THEN [c EXCEPT !.auth =
                                 PlainAuth(r.plain_auth[1].identity, c.username,
                                           r.plain_auth[1].password, c.host)]
                         ELSE c,
              diag |-> NoDiag]
        ELSE [client |-> NoClient, diag |-> "no authentication method specified"]

----------------------------------------------------------------------------
(* resource_message.go: helpers *)

\* recipientList's AtLeastOneOf: {"to", "cc", "bcc"}
AtLeastOneOfAlways(r) == TRUE

AtLeastOneOf(r) == r.to # {} \/ r.cc # {} \/ r.bcc # {}

\* schema.Set.List() lists the elements by ascending hash code
HashCode == [a \in Addrs |-> IF a = "a@x.com" THEN 2 ELSE 1]

RECURSIVE SetList(_)
SetList(S) ==
    IF S = {} THEN <<>>
    ELSE LET m == CHOOSE x \in S : \A y \in S : HashCode[x] <= HashCode[y]
         IN  <<m>> \o SetList(S \ {m})

\* strings.Join(list, sep)
RECURSIVE Join(_, _)
Join(list, sep) ==
    IF list = <<>> THEN <<>>
    ELSE IF Len(list) = 1 THEN <<list[1]>>
    ELSE <<list[1], sep>> \o Join(Tail(list), sep)

\* fmt.Fprintln's text: the operands separated by spaces, then a newline
RECURSIVE Sprintln(_)
Sprintln(args) ==
    IF args = <<>> THEN <<"\n">>
    ELSE IF Len(args) = 1 THEN args[1] \o <<"\n">>
    ELSE args[1] \o <<" ">> \o Sprintln(Tail(args))

\* textproto's dotWriter.Write, one byte c in state st: the state it leaves
DotNextState(st, c) ==
    IF st = "wstateCR"
    THEN IF c = "\n" THEN "wstateBeginLine" ELSE "wstateData"
    ELSE IF c = "\n" THEN "wstateBeginLine"
    ELSE IF c = "\r" THEN "wstateCR"
    ELSE "wstateData"

\* ... and the bytes it hands to the bufio.Writer
DotEmit(st, c) ==
    IF st = "wstateCR" THEN <<c>>
    ELSE (IF st \in {"wstateBegin", "wstateBeginLine"} /\ c = "." THEN <<".">> ELSE <<>>)
         \o (IF c = "\n" THEN <<"\r", c>> ELSE <<c>>)

\* dotWriter.Write(p), from state st with out already emitted
RECURSIVE DotWriteLoop(_, _, _)
DotWriteLoop(st, p, out) ==
    IF p = <<>> THEN [state |-> st, out |-> out]
    ELSE DotWriteLoop(DotNextState(st, p[1]), Tail(p), out \o DotEmit(st, p[1]))

DotWrite(st, p) == DotWriteLoop(st, p, <<>>)

\* dotWriter.Close: the terminator
DotClose(st) ==
    IF st = "wstateBeginLine" THEN <<".", "\r", "\n">>
    ELSE IF st = "wstateCR" THEN <<"\n", ".", "\r", "\n">>
    ELSE <<"\r", "\n", ".", "\r", "\n">>

\* sha256's Sum: taken as collision free, a digest stands for the bytes absorbed
Sum256(bytes) == <<"sha256", bytes>>

\* the orders in which a range over a Go map with key set S may visit the keys
Orderings(S) ==
    { f \in [1..Cardinality(S) -> S] : \A x \in S : \E i \in DOMAIN f : f[i] = x }

RECURSIVE Flatten(_)
Flatten(lists) ==
    IF lists = <<>> THEN <<>> ELSE lists[1] \o Flatten(Tail(lists))

\* the keys of recipientSet after the two nested loops
RECURSIVE RecipientSet(_)
RecipientSet(lists) ==
    IF lists = <<>> THEN {}
    ELSE Range(lists[1]) \cup RecipientSet(Tail(lists))

uniqueRecipientsNoDedup(lists) == { Flatten(lists) }

\* every list the final range over the map may build
uniqueRecipients(lists) == Orderings(RecipientSet(lists))

----------------------------------------------------------------------------
(* resource_message.go: resourceMessageCreate *)

\* lines 81-87: username, overridden by the provider's from, overridden by the message's
EffectiveSenderDefaultFirst(c, r) ==
    IF c.from # "" THEN c.from ELSE IF r.from # "" THEN r.from ELSE c.username

EffectiveSender(c, r) ==
    IF r.from # "" THEN r.from ELSE IF c.from # "" THEN c.from ELSE c.username

FromLine(f) == Sprintln(<< <<"From: ">>, <<f>> >>)
SubjectLine(s) == Sprintln(<< <<"Subject: ">>, <<s>> >>)
ToLine(to) == Sprintln(<< <<"To: ">>, Join(to, ", ") >>)
CcLine(cc) == Sprintln(<< <<"Cc: ">>, Join(cc, ", ") >>)
HeaderLine(k, v) == Sprintln(<< <<k>>, <<": ">>, <<v>> >>)
Separator == Sprintln(<< >>)

\* io.MultiWriter(msgWriter) alone: the hash is left out
MultiWriterWriteNoSum(sum, st, held, p, err) ==
    IF err THEN [sumWriter |-> sum, dotState |-> st, bw |-> held]
    ELSE LET w == DotWrite(st, p)
         IN  [sumWriter |-> sum, dotState |-> w.state, bw |-> held \o w.out]

\* io.MultiWriter(sumWriter, msgWriter).Write(p): sumWriter first (a hash never fails),
\* then msgWriter; err is the error an io.Writer may return, which every write of
\* resourceMessageCreate checks
MultiWriterWrite(sum, st, held, p, err) ==
    IF err THEN [sumWriter |-> sum \o p, dotState |-> st, bw |-> held]
    ELSE LET w == DotWrite(st, p)
         IN  [sumWriter |-> sum \o p, dotState |-> w.state, bw |-> held \o w.out]

\* a failed write's `return diag.Errorf(...)`, dropped
AfterWriteIgnoringErr(err, next) == next

\* `if _, err := ...; err != nil { return diag.Errorf(...) }`
AfterWrite(err, next) == IF err THEN "Failed" ELSE next

\* line 134 without the bcc list
CreateRecipientsNoBcc(to, cc, bcc) == uniqueRecipients(<<to, cc>>)

\* line 134
CreateRecipients(to, cc, bcc) == uniqueRecipients(<<to, cc, bcc>>)

\* d.SetId reached whatever smtp.SendMail returned
CreateIdIgnoringErr(err, t, bytes, old) == <<t, Sum256(bytes)>>

\* lines 136-140: the id after smtp.SendMail returned err
CreateId(err, t, bytes, old) == IF err THEN old ELSE <<t, Sum256(bytes)>>

----------------------------------------------------------------------------
(* The state machine *)

HeaderMaps == { [k \in K |-> HeaderValue[k]] : K \in SUBSET HeaderKeys }

Configs ==
    [host : {"localhost"}, port : {DefaultPort}, username : {"test"},
     from : DefaultFroms, cram_md5_auth : CramBlocks, plain_auth : PlainBlocks]

\* requests that vary the three recipient sets
AddressRequests ==
    [subject : {"Hello World!"}, body : {<<"Boom">>}, from : {""},
     to : SUBSET Addrs, cc : SUBSET Addrs, bcc : SUBSET Addrs,
     headers : {[k \in {} |-> ""]}]

\* requests that vary the body, the extra headers and the from override
ContentRequests ==
    [subject : {"Hello World!"}, body : Bodies, from : FromOverrides,
     to : {{"a@x.com"}}, cc : {{}}, bcc : {{}, {"b@x.com"}},
     headers : HeaderMaps]

Requests == AddressRequests \cup ContentRequests

\* the locals of resourceMessageCreate before line 76 runs
NoLocals ==
    /\ from' = ""
    /\ hdrLeft' = {}
    /\ sumWriter' = <<>>
    /\ dotState' = "wstateBegin"
    /\ bw' = <<>>
    /\ buffer' = <<>>
    /\ recipients' = <<>>
    /\ sent' = NoCall
    /\ sendCalls' = 0
    /\ diag' = NoDiag

Init ==
    /\ config \in Configs
    /\ req \in Requests
    /\ client = NoClient
    /\ configDiag = NoDiag
    /\ pc = "Unconfigured"
    /\ from = ""
    /\ hdrLeft = {}
    /\ sumWriter = <<>>
    /\ dotState = "wstateBegin"
    /\ bw = <<>>
    /\ buffer = <<>>
    /\ recipients = <<>>
    /\ sent = NoCall
    /\ sendCalls = 0
    /\ diag = NoDiag
    /\ id = NoId
    /\ now = 1
    /\ issued = <<>>
    /\ creates = 0

\* the host calls ConfigureContextFunc once
Configure ==
    /\ pc = "Unconfigured"
    /\ LET r == configureClient(config)
       IN  /\ client' = r.client
           /\ configDiag' = r.diag
           /\ pc' = IF r.diag = NoDiag THEN "Idle" ELSE "ConfigFailed"
    /\ UNCHANGED <<config, req, from, hdrLeft, sumWriter, dotState, bw, buffer,
                   recipients, sent, sendCalls, diag, id, now, issued, creates>>

\* the host validates the resource against its schema and, if it is valid, calls
\* CreateContext, which sets up its writers (lines 74-79)
CreateBegin ==
    /\ pc = "Idle"
    /\ creates < MaxCreates
    /\ NoLocals
    /\ IF AtLeastOneOf(req)
       THEN /\ pc' = "From"
            /\ creates' = creates + 1
       ELSE /\ pc' = "Rejected"
            /\ UNCHANGED creates
    /\ UNCHANGED <<config, client, configDiag, req, id, now, issued>>

\* one fmt.Fprint / Fprintln on writer and its error check
Write(p, err, next, msg) ==
    LET w == MultiWriterWrite(sumWriter, dotState, bw, p, err)
    IN  /\ sumWriter' = w.sumWriter
        /\ dotState' = w.dotState
        /\ bw' = w.bw
        /\ pc' = AfterWrite(err, next)
        /\ diag' = IF err THEN msg ELSE diag
        /\ UNCHANGED <<config, client, configDiag, req, buffer, recipients, sent,
                       sendCalls, id, now, issued, creates>>

WriteFrom ==
    /\ pc = "From"
    /\ from' = EffectiveSender(client, req)
    /\ \E err \in BOOLEAN :
          Write(FromLine(from'), err, "Subject", "failed to write the From header")
    /\ UNCHANGED hdrLeft

WriteSubject ==
    /\ pc = "Subject"
    /\ \E err \in BOOLEAN :
          Write(SubjectLine(req.subject), err, "To", "failed to write the Subject header")
    /\ UNCHANGED <<from, hdrLeft>>

WriteTo ==
    /\ pc = "To"
    /\ LET to == SetList(req.to)
       IN  \E err \in BOOLEAN :
             Write(IF Len(to) > 0 THEN ToLine(to) ELSE <<>>, Len(to) > 0 /\ err,
                   "Cc", "failed to write the To header")
    /\ UNCHANGED <<from, hdrLeft>>

WriteCc ==
    /\ pc = "Cc"
    /\ LET cc == SetList(req.cc)
       IN  \E err \in BOOLEAN :
             Write(IF Len(cc) > 0 THEN CcLine(cc) ELSE <<>>, Len(cc) > 0 /\ err,
                   "Headers", "failed to write the Cc header")
    /\ hdrLeft' = DOMAIN req.headers
    /\ UNCHANGED from

\* one iteration of the range over d.Get("headers"), in whatever order the map gives
WriteHeader ==
    /\ pc = "Headers"
    /\ \E k \in hdrLeft :
          /\ \E err \in BOOLEAN :
                Write(HeaderLine(k, req.headers[k]), err, "Headers",
                      "failed to write the header")
          /\ hdrLeft' = hdrLeft \ {k}
    /\ UNCHANGED from

WriteSeparator ==
    /\ pc = "Headers"
    /\ hdrLeft = {}
    /\ \E err \in BOOLEAN :
          Write(Separator, err, "Body", "failed to write the body separator")
    /\ UNCHANGED <<from, hdrLeft>>

WriteBody ==
    /\ pc = "Body"
    /\ \E err \in BOOLEAN :
          Write(req.body, err, "Close", "failed to write the body")
    /\ UNCHANGED <<from, hdrLeft>>

\* msgWriter.Close(): the terminator, then the bufio.Writer's Flush into buffer
CloseWriter ==
    /\ pc = "Close"
    /\ \E err \in BOOLEAN :
          /\ pc' = AfterWrite(err, "Send")
          /\ diag' = IF err THEN "failed to close the message writer" ELSE diag
          /\ IF err
             THEN UNCHANGED <<dotState, bw, buffer>>
             ELSE /\ buffer' = buffer \o bw \o DotClose(dotState)
                  /\ bw' = <<>>
                  /\ dotState' = "closed"
    /\ UNCHANGED <<config, client, configDiag, req, from, hdrLeft, sumWriter,
                   recipients, sent, sendCalls, id, now, issued, creates>>

\* one stage of smtp.SendMail failing: SendMail returns the error, create returns
\* diag.Errorf("Error sending message ...")
SendFails ==
    /\ pc' = "Failed"
    /\ diag' = "Error sending message"

\* lines 131-136: the recipients are resolved and smtp.SendMail is called with
\* buffer.Bytes(); SendMail dials the server and greets it
SendMailDial ==
    /\ pc = "Send"
    /\ \E out \in CreateRecipients(SetList(req.to), SetList(req.cc), SetList(req.bcc)) :
          /\ recipients' = out
          /\ sent' = [addr |-> <<client.host, client.port>>, auth |-> client.auth,
                      from |-> client.username, to |-> out, msg |-> buffer]
    /\ sendCalls' = sendCalls + 1
    /\ \E ok \in BOOLEAN :
          IF ok THEN pc' = "Connected" /\ UNCHANGED diag ELSE SendFails
    /\ UNCHANGED <<config, client, configDiag, req, from, hdrLeft, sumWriter, dotState,
                   bw, buffer, id, now, issued, creates>>

\* SendMail authenticates with client.auth
SendMailAuth ==
    /\ pc = "Connected"
    /\ \E ok \in BOOLEAN :
          IF ok THEN pc' = "Authenticated" /\ UNCHANGED diag ELSE SendFails
    /\ UNCHANGED <<config, client, configDiag, req, from, hdrLeft, sumWriter, dotState,
                   bw, buffer, recipients, sent, sendCalls, id, now, issued, creates>>

\* SendMail issues MAIL FROM and one RCPT TO per recipient
SendMailRcpt ==
    /\ pc = "Authenticated"
    /\ \E ok \in BOOLEAN :
          IF ok THEN pc' = "RecipientsAccepted" /\ UNCHANGED diag ELSE SendFails
    /\ UNCHANGED <<config, client, configDiag, req, from, hdrLeft, sumWriter, dotState,
                   bw, buffer, recipients, sent, sendCalls, id, now, issued, creates>>

\* SendMail transfers the message as DATA
SendMailData ==
    /\ pc = "RecipientsAccepted"
    /\ \E ok \in BOOLEAN :
          IF ok THEN pc' = "DataSent" /\ UNCHANGED diag ELSE SendFails
    /\ UNCHANGED <<config, client, configDiag, req, from, hdrLeft, sumWriter, dotState,
                   bw, buffer, recipients, sent, sendCalls, id, now, issued, creates>>

\* SendMail's QUIT and return, then lines 136-142
SendMailReturn ==
    /\ pc = "DataSent"
    /\ \E err \in BOOLEAN :
          /\ id' = CreateId(err, now, sumWriter, id)
          /\ IF err
             THEN /\ SendFails
                  /\ UNCHANGED <<now, issued>>
             ELSE /\ pc' = "Done"
                  /\ now' = now + 1
                  /\ issued' = Append(issued, Sum256(sumWriter))
                  /\ UNCHANGED diag
    /\ UNCHANGED <<config, client, configDiag, req, from, hdrLeft, sumWriter, dotState,
                   bw, buffer, recipients, sent, sendCalls, creates>>

\* DeleteContext: schema.RemoveFromState; the host may then create the resource again
Delete ==
    /\ pc = "Done"
    /\ creates < MaxCreates
    /\ id' = NoId
    /\ pc' = "Idle"
    /\ NoLocals
    /\ UNCHANGED <<config, client, configDiag, req, now, issued, creates>>

Next ==
    \/ Configure
    \/ CreateBegin
    \/ WriteFrom
    \/ WriteSubject
    \/ WriteTo
    \/ WriteCc
    \/ WriteHeader
    \/ WriteSeparator
    \/ WriteBody
    \/ CloseWriter
    \/ SendMailDial
    \/ SendMailAuth
    \/ SendMailRcpt
    \/ SendMailData
    \/ SendMailReturn
    \/ Delete

Spec == Init /\ [][Next]_vars

----------------------------------------------------------------------------
(* Properties *)

Composed == {"Send", "Connected", "Authenticated", "RecipientsAccepted", "DataSent", "Done"}
NoRequest == {"Unconfigured", "ConfigFailed", "Idle", "Rejected"}

\* the phase of the request's transaction the position belongs to
Phase ==
    IF pc \in NoRequest THEN "Idle"
    ELSE IF pc \in {"From", "Subject", "To", "Cc", "Headers", "Body", "Close", "Send"}
    THEN "Composing"
    ELSE pc

\* the composed bytes up to the blank line that ends the headers
HeaderBlock ==
    LET blank == { i \in DOMAIN sumWriter :
                     sumWriter[i] = "\n" /\ (i = 1 \/ sumWriter[i - 1] = "\n") }
    IN  IF blank = {} THEN sumWriter
        ELSE SubSeq(sumWriter, 1, (CHOOSE i \in blank : \A j \in blank : i <= j) - 1)

Occurs(line, s) ==
    \E i \in 1..Len(s) : i + Len(line) - 1 <= Len(s) /\ SubSeq(s, i, i + Len(line) - 1) = line

\* C1: the id is set only by a create whose one smtp.SendMail call returned success;
\* a create that failed in composition or in any stage of the send has returned an
\* error diagnostic and has set no id.
C1_IdOnlyAfterSend ==
    /\ id # NoId => pc = "Done" /\ diag = NoDiag /\ sendCalls = 1 /\ sent # NoCall
    /\ pc = "Failed" => diag # NoDiag /\ id = NoId
    /\ diag # NoDiag => pc = "Failed" /\ id = NoId

C1_Witness ==
    /\ pc = "Done"
    /\ sendCalls = 1
    /\ diag = NoDiag
    /\ id = <<now - 1, Sum256(sumWriter)>>

\* C2: no address that is only in bcc is written into the header block, no Bcc line is
\* written, and every bcc address is in the recipient list handed to smtp.SendMail.
C2_BccBlind ==
    /\ LET block == Range(HeaderBlock)
       IN  /\ \A x \in req.bcc \ (req.to \cup req.cc) : x \notin block
           /\ "Bcc: " \notin block
           /\ "Bcc" \notin block
    /\ sent # NoCall => req.bcc \subseteq Range(sent.to)

C2_Witness ==
    /\ pc = "Done"
    /\ req.bcc \ (req.to \cup req.cc) # {}
    /\ req.to # {}
    /\ req.cc # {}
    /\ req.bcc \subseteq Range(sent.to)

\* the dot writer's framing of a whole document: what Write and Close emit for it
DotEncode(bytes) ==
    LET w == DotWrite("wstateBegin", bytes)
    IN  w.out \o DotClose(w.state)

\* C3 as stated: the bytes the fingerprint absorbed are the bytes in the buffer handed
\* to smtp.SendMail.
C3_SameBytes == sent # NoCall => sent.msg = sumWriter

\* C3 as amended: the buffer handed to smtp.SendMail is the dot writer's framing (CR
\* before a bare LF, a leading dot doubled, the terminator appended) of exactly the
\* bytes the fingerprint absorbed, so it is longer than them and never equal to them.
C3_BufferIsFramedSum ==
    /\ dotState = "closed" =>
          /\ bw = <<>>
          /\ buffer = DotEncode(sumWriter)
          /\ Len(buffer) > Len(sumWriter)
    /\ sent # NoCall => dotState = "closed" /\ sent.msg = buffer

C3_Witness ==
    /\ pc = "Done"
    /\ req.body # <<"Boom">>
    /\ DOMAIN req.headers = HeaderKeys
    /\ sent.msg = DotEncode(sumWriter)
    /\ Occurs(<<"\r", "\n", ".", ".", "hidden">>, sent.msg)
    /\ ~ Occurs(<<".", ".">>, sumWriter)

\* the steps the phases may take: forward along the transaction, or to Failed
PhaseOrder ==
    { <<"Idle", "Idle">>, <<"Idle", "Composing">>, <<"Composing", "Composing">>,
      <<"Composing", "Connected">>, <<"Connected", "Authenticated">>,
      <<"Authenticated", "RecipientsAccepted">>, <<"RecipientsAccepted", "DataSent">>,
      <<"DataSent", "Done">>, <<"Done", "Idle">>,
      <<"Composing", "Failed">>, <<"Connected", "Failed">>, <<"Authenticated", "Failed">>,
      <<"RecipientsAccepted", "Failed">>, <<"DataSent", "Failed">> }

PhaseStep ==
    /\ (<<Phase, Phase'>> \in PhaseOrder)
    \* the document is complete and closed when the transport is invoked
    /\ sendCalls' > sendCalls =>
          /\ Phase = "Composing" /\ sendCalls = 0 /\ sendCalls' = 1
          /\ hdrLeft = {} /\ dotState = "closed" /\ bw = <<>>
          /\ Occurs(Separator \o req.body, sumWriter)
          /\ sent'.msg = buffer
    \* a failure ends the transaction
    /\ diag' # NoDiag => Phase' = "Failed"
    /\ Phase = "Failed" => UNCHANGED vars
    \* a request that is done is only deleted
    /\ Phase = "Done" /\ Phase' # "Done" => id' = NoId /\ sendCalls' = 0

\* C4: a create goes through Idle, Composing, Connected, Authenticated,
\* RecipientsAccepted, DataSent, Done in this order; the transport is invoked once, with
\* the document complete and closed; a failure in any phase leads to Failed, where
\* nothing more happens.
C4_PhaseOrder == [][PhaseStep]_vars

C4_Witness ==
    /\ pc = "Failed"
    /\ diag = "Error sending message"
    /\ sendCalls = 1
    /\ creates = MaxCreates
    /\ Len(issued) = MaxCreates - 1

Selected(block) == Len(block) = 1

\* C5: with exactly one scheme selected configureClient returns a client whose auth is of
\* that scheme and no diagnostic; with none selected it returns the diagnostic
\* "no authentication method specified" and no client.
C5_ConfigureClient ==
    pc # "Unconfigured" =>
        /\ Selected(config.cram_md5_auth) /\ ~ Selected(config.plain_auth) =>
              /\ configDiag = NoDiag
              /\ client # NoClient
              /\ client.auth = CRAMMD5Auth(config.username, config.cram_md5_auth[1].secret)
        /\ Selected(config.plain_auth) /\ ~ Selected(config.cram_md5_auth) =>
              /\ configDiag = NoDiag
              /\ client # NoClient
              /\ client.auth.scheme = "PLAIN"
              /\ client.auth.password = config.plain_auth[1].password
              /\ client.auth.host = config.host
        /\ ~ Selected(config.plain_auth) /\ ~ Selected(config.cram_md5_auth) =>
              /\ configDiag = "no authentication method specified"
              /\ client = NoClient
              /\ pc = "ConfigFailed"

C5_Witness ==
    /\ pc = "Idle"
    /\ Selected(config.plain_auth)
    /\ ~ Selected(config.cram_md5_auth)
    /\ client.auth.scheme = "PLAIN"

\* C6: the fingerprints of two creates of the same request are equal.
C6_SameFingerprint ==
    \A i, j \in DOMAIN issued : issued[i] = issued[j]

NoDuplicates(list) == Cardinality(Range(list)) = Len(list)

\* the three argument lists of uniqueRecipients with the lists and their elements reordered
Reorderings(lists) ==
    { [i \in 1..3 |-> t[order[i]]] :
        order \in Orderings(1..3),
        t \in Orderings(Range(lists[1])) \X Orderings(Range(lists[2]))
                \X Orderings(Range(lists[3])) }

\* C7: the recipients resolved from to, cc and bcc are exactly the union of the three
\* sets, each address once; every reordering of the lists and of their elements resolves
\* to the same set, and so does resolving the result again.
C7_UniqueRecipients ==
    sent # NoCall =>
        LET lists == <<SetList(req.to), SetList(req.cc), SetList(req.bcc)>>
        IN  /\ recipients = sent.to
            /\ Range(recipients) = req.to \cup req.cc \cup req.bcc
            /\ NoDuplicates(recipients)
            /\ \A other \in Reorderings(lists) :
                  \A out \in uniqueRecipients(other) :
                      Range(out) = Range(recipients) /\ NoDuplicates(out)
            /\ \A out \in uniqueRecipients(<<recipients>>) :
                  Range(out) = Range(recipients) /\ NoDuplicates(out)

C7_Witness ==
    /\ sent # NoCall
    /\ req.to = Addrs
    /\ req.cc = {"a@x.com"}
    /\ req.bcc = {"b@x.com"}
    /\ sent.to = <<"b@x.com", "a@x.com">>

\* C8: the From header carries the message's from when it is not empty, else the
\* provider's from when it is not empty, else the provider's username.
C8_SenderPrecedence ==
    pc \notin NoRequest \cup {"From"} =>
        /\ req.from # "" => from = req.from
        /\ req.from = "" /\ config.from # "" => from = config.from
        /\ req.from = "" /\ config.from = "" => from = config.username
        /\ Len(sumWriter) >= 4
        /\ SubSeq(sumWriter, 1, 4) = <<"From: ", " ", from, "\n">>

C8_Witness ==
    /\ pc = "Done"
    /\ req.from # ""
    /\ config.from # ""
    /\ sent.msg[3] = req.from

\* C9: a request whose to, cc and bcc are all empty is rejected before create runs;
\* smtp.SendMail is never called with an empty recipient list.
C9_NoEmptySend ==
    /\ sent # NoCall => sent.to # <<>>
    /\ req.to \cup req.cc \cup req.bcc = {} =>
          pc \in NoRequest /\ creates = 0 /\ sendCalls = 0 /\ sent = NoCall

C9_Witness ==
    /\ pc = "Rejected"
    /\ req.to \cup req.cc \cup req.bcc = {}
    /\ sent = NoCall

\* C10: once the extra headers are written, each entry has one line in the header block
\* with the key directly followed by the colon, then the value.
C10_HeaderFraming ==
    pc \in {"Body", "Close"} \cup Composed =>
        \A k \in DOMAIN req.headers :
            Occurs(<<"\n", k, ": ", " ", req.headers[k], "\n">>, HeaderBlock \o <<"\n">>)

====
